---- MODULE Spec2Model ----
(***************************************************************************)
(* A model of the VarioMS5611 driver (src/VarioMS5611.cpp and its header   *)
(* src/unnamed/part_000): the cooperative acquisition state machine        *)
(* triggerReadValues(), the blocking reads built on it, the temperature    *)
(* and pressure compensation arithmetic and the two IIR filters.           *)
(*                                                                         *)
(* Number representation.                                                  *)
(*  - TLC's integers are 32 bits wide, the driver's int64_t arithmetic is  *)
(*    not: a 64-bit value is held as a sign and a magnitude of base-2^15   *)
(*    limbs (least significant first, no leading zero limb), and the       *)
(*    W-operators below are the exact integer operations on them.          *)
(*  - An unsigned long (millis(), nextRead, lastTime) is held as its       *)
(*    two's-complement image: u < 2^31 as u, u >= 2^31 as u - 2^32, so     *)
(*    that -1 is 2^32 - 1, the last value before the counter wraps to 0.   *)
(*  - A double is held as a fixed-point integer: pressures in Pa,          *)
(*    altitudes in cm, smoothing factors in hundredths.                    *)
(***************************************************************************)
EXTENDS Integers, Sequences, FiniteSets, TLC

(***************************************************************************)
(* Wide (64-bit) integer arithmetic                                        *)
(***************************************************************************)
RECURSIVE Pow2(_)
Pow2(k) == IF k = 0 THEN 1 ELSE 2 * Pow2(k - 1)

LimbBits == 3 * 5
Base == Pow2(LimbBits)

RECURSIVE MNorm(_)
MNorm(m) == IF m = <<>> THEN <<>>
            ELSE IF m[Len(m)] = 0 THEN MNorm(SubSeq(m, 1, Len(m) - 1))
            ELSE m

RECURSIVE MFromNat(_)
MFromNat(n) == IF n = 0 THEN <<>> ELSE <<n % Base>> \o MFromNat(n \div Base)

\* the value of a magnitude that is below 2^31
MToNat(m) == IF Len(m) = 0 THEN 0
             ELSE IF Len(m) = 1 THEN m[1]
             ELSE IF Len(m) = 2 THEN m[1] + Base * m[2]
             ELSE m[1] + Base * m[2] + (Base * Base) * m[3]

MFits31(m) == Len(m) <= 2 \/ (Len(m) = 3 /\ m[3] < 2)

RECURSIVE MAddC(_, _, _)
MAddC(a, b, c) ==
    IF a = <<>> /\ b = <<>> THEN (IF c = 0 THEN <<>> ELSE <<c>>)
    ELSE LET x == IF a = <<>> THEN 0 ELSE Head(a)
             y == IF b = <<>> THEN 0 ELSE Head(b)
             s == x + y + c
             ta == IF a = <<>> THEN <<>> ELSE Tail(a)
             tb == IF b = <<>> THEN <<>> ELSE Tail(b)
         IN  <<s % Base>> \o MAddC(ta, tb, s \div Base)

MAdd(a, b) == MNorm(MAddC(a, b, 0))

\* a - b for a >= b
RECURSIVE MSubB(_, _, _)
MSubB(a, b, w) ==
    IF a = <<>> THEN <<>>
    ELSE LET y == IF b = <<>> THEN 0 ELSE Head(b)
             d == Head(a) - y - w
             tb == IF b = <<>> THEN <<>> ELSE Tail(b)
         IN  IF d < 0 THEN <<d + Base>> \o MSubB(Tail(a), tb, 1)
             ELSE <<d>> \o MSubB(Tail(a), tb, 0)

MSub(a, b) == MNorm(MSubB(a, b, 0))

\* -1, 0, 1 as a < b, a = b, a > b (both without leading zero limbs)
RECURSIVE MCmp(_, _)
MCmp(a, b) ==
    IF Len(a) # Len(b) THEN (IF Len(a) < Len(b) THEN -1 ELSE 1)
    ELSE IF Len(a) = 0 THEN 0
    ELSE IF a[Len(a)] # b[Len(b)] THEN (IF a[Len(a)] < b[Len(b)] THEN -1 ELSE 1)
    ELSE MCmp(SubSeq(a, 1, Len(a) - 1), SubSeq(b, 1, Len(b) - 1))

RECURSIVE MMulLimb(_, _, _)
MMulLimb(a, d, c) ==
    IF a = <<>> THEN (IF c = 0 THEN <<>> ELSE <<c>>)
    ELSE LET p == Head(a) * d + c
         IN  <<p % Base>> \o MMulLimb(Tail(a), d, p \div Base)

RECURSIVE MMul(_, _)
MMul(a, b) ==
    IF a = <<>> \/ b = <<>> THEN <<>>
    ELSE MAdd(MNorm(MMulLimb(a, Head(b), 0)),
              IF Tail(b) = <<>> THEN <<>> ELSE MNorm(<<0>> \o MMul(a, Tail(b))))

\* floor(m / 2^k)
RECURSIVE MShrBits(_, _)
MShrBits(m, k) ==
    IF m = <<>> THEN <<>>
    ELSE LET nxt == IF Len(m) > 1 THEN m[2] ELSE 0
         IN  <<(m[1] \div Pow2(k)) + (nxt % Pow2(k)) * Pow2(LimbBits - k)>>
             \o MShrBits(Tail(m), k)

MShr(m, k) ==
    LET drop == k \div LimbBits
        rest == IF drop >= Len(m) THEN <<>> ELSE SubSeq(m, drop + 1, Len(m))
    IN  MNorm(MShrBits(rest, k % LimbBits))

\* m mod 2^k
MLow(m, k) ==
    LET full == k \div LimbBits
        bits == k % LimbBits
        padded == m \o [i \in 1..(full + 1) |-> 0]
    IN  MNorm(SubSeq(padded, 1, full) \o <<padded[full + 1] % Pow2(bits)>>)

M2p31 == <<0, 0, 2>>
M2p32 == <<0, 0, 4>>
MInt32Max == <<32767, 32767, 1>>

\* floor(m / (2^31 - 1)): m = hi*2^31 + lo = hi*(2^31 - 1) + (hi + lo)
RECURSIVE MDivInt32Max(_)
MDivInt32Max(m) ==
    IF MCmp(m, MInt32Max) < 0 THEN <<>>
    ELSE IF MCmp(m, M2p31) < 0 THEN <<1>>
    ELSE MAdd(MShr(m, 31), MDivInt32Max(MAdd(MShr(m, 31), MLow(m, 31))))

\* signed wide integers
WMk(neg, mag) == [neg |-> (neg /\ mag # <<>>), mag |-> mag]
W(n) == IF n < 0 THEN WMk(TRUE, MFromNat(-n)) ELSE WMk(FALSE, MFromNat(n))
WNeg(a) == WMk(~a.neg, a.mag)
WAdd(a, b) ==
    IF a.neg = b.neg THEN WMk(a.neg, MAdd(a.mag, b.mag))
    ELSE IF MCmp(a.mag, b.mag) >= 0 THEN WMk(a.neg, MSub(a.mag, b.mag))
    ELSE WMk(b.neg, MSub(b.mag, a.mag))
WSub(a, b) == WAdd(a, WNeg(b))
WMul(a, b) == WMk(a.neg # b.neg, MMul(a.mag, b.mag))
\* C++ integer division by 2^k: the quotient is truncated toward zero
WDivPow2(a, k) == WMk(a.neg, MShr(a.mag, k))
WDivInt32Max(a) == WMk(a.neg, MDivInt32Max(a.mag))
WLess(a, b) ==
    IF a.neg # b.neg THEN a.neg
    ELSE IF a.neg THEN MCmp(a.mag, b.mag) > 0
    ELSE MCmp(a.mag, b.mag) < 0
WFitsInt32(a) == IF a.neg THEN MCmp(a.mag, M2p31) <= 0 ELSE MCmp(a.mag, M2p31) < 0
\* the value, for a wide integer within -(2^31 - 1) .. 2^31 - 1
WToInt(a) == IF a.neg THEN -MToNat(a.mag) ELSE MToNat(a.mag)

\* conversion to uint32_t (modulo 2^32), as a magnitude: low is the magnitude
\* modulo 2^32
U32OfLow(neg, low) == IF neg /\ low # <<>> THEN MSub(M2p32, low) ELSE low
WToU32(a) == U32OfLow(a.neg, MLow(a.mag, 32))
\* conversion of a uint32_t to int32_t, two's complement
Int32OfU32(u) ==
    IF MCmp(u, M2p31) < 0 THEN MToNat(u)
    ELSE IF MCmp(u, M2p31) = 0 THEN -2147483647 - 1
    ELSE -MToNat(MSub(M2p32, u))
WToInt32(a) == Int32OfU32(WToU32(a))

(***************************************************************************)
(* Calibration data and the compensation arithmetic                        *)
(***************************************************************************)
INT32_MIN == -2147483647 - 1

\* a wide integer from an int32_t
WOfInt32(n) == IF n = INT32_MIN THEN WMk(TRUE, M2p31) ELSE W(n)

\* int32_t * int32_t. A product outside int32_t is undefined behaviour: a build
\* either keeps the low 32 bits (wide = FALSE) or carries the product in a wider
\* register (wide = TRUE).
Int32Wrap(p, wide) == IF wide \/ WFitsInt32(p) THEN p ELSE WOfInt32(WToInt32(p))
Int32Mul(x, y, wide) == Int32Wrap(WMul(x, y), wide)

\* C++ '/' on a wide integer by 2 or 4
WHalf(x) == WDivPow2(x, 1)
WQuarter(x) == WDivPow2(x, 2)

\* int32_t dT = D2 - (uint32_t)myCompensationValues[4] * 256;
DeltaT(C, D2) == WToInt32(WSub(W(D2), WMul(W(C[5]), W(256))))

\* int32_t TEMP = 2000 + ((int64_t) dT * myCompensationValues[5]) / 8388608;
FirstOrderTEMPFloor(C, dT) ==
    LET p == WMul(W(dT), W(C[6]))
    IN  WToInt32(WAdd(W(2000), IF p.neg THEN WNeg(WDivPow2(WAdd(WNeg(p), W(8388607)), 23))
                                ELSE WDivPow2(p, 23)))
FirstOrderTEMP(C, dT) ==
    WToInt32(WAdd(W(2000), WDivPow2(WMul(W(dT), W(C[6])), 23)))

\* myTEMP2 = (dT * dT) / INT32_MAX;
SecondOrderTEMP2(dT, wide) ==
    WToInt32(WDivInt32Max(Int32Mul(W(dT), W(dT), wide)))

\* TEMP = TEMP - myTEMP2; return TEMP; with the member myTEMP2
TempResult(TEMP, TEMP2) == [ret |-> TEMP - TEMP2, TEMP2 |-> TEMP2]

\* lines 219-230 and 402-410: myTEMP2 = 0, then the second-order term below 20 degC
TempSecondOrder(dT, TEMP, second, wide) ==
    TempResult(TEMP, IF second /\ TEMP < 2000 THEN SecondOrderTEMP2(dT, wide) ELSE 0)

\* calcTemperature(): the returned TEMP and the member myTEMP2 it leaves
calcTemperatureNoGuard(C, aRawTemperature, second, wide) ==
    LET dT == DeltaT(C, aRawTemperature)
        TEMP == FirstOrderTEMP(C, dT)
        TEMP2 == IF second THEN SecondOrderTEMP2(dT, wide) ELSE 0
    IN  [ret |-> TEMP - TEMP2, TEMP2 |-> TEMP2]
calcTemperatureOf(C, dT, second, wide) ==
    TempSecondOrder(dT, FirstOrderTEMP(C, dT), second, wide)
calcTemperature(C, aRawTemperature, second, wide) ==
    calcTemperatureOf(C, DeltaT(C, aRawTemperature), second, wide)

\* the second-order terms myOFF2 and mySENS2 (int64_t members assigned from
\* int32_t expressions): sq5 is 5 * ((TEMP - 2000) * (TEMP - 2000)) and sqe is
\* (TEMP + 1500) * (TEMP + 1500)
OffSensOf(TEMP, sq5, sqe, wide) ==
    [OFF2 |-> WAdd(IF TEMP < 2000 THEN WHalf(sq5) ELSE W(0),
                   IF TEMP < -1500 THEN Int32Mul(W(7), sqe, wide) ELSE W(0)),
     SENS2 |-> WAdd(IF TEMP < 2000 THEN WQuarter(sq5) ELSE W(0),
                    IF TEMP < -1500 THEN WHalf(Int32Mul(W(11), sqe, wide)) ELSE W(0))]
SecondOrderOffSens(TEMP, wide) ==
    OffSensOf(TEMP,
              Int32Mul(W(5), Int32Mul(W(TEMP - 2000), W(TEMP - 2000), wide), wide),
              Int32Mul(W(TEMP + 1500), W(TEMP + 1500), wide), wide)

\* int64_t OFF = (int64_t)C[1] * 65536 + (int64_t)C[3] * dT / 128;
FirstOrderOFFSwapped(C, dT) ==
    WAdd(WMul(W(C[4]), W(65536)), WDivPow2(WMul(W(C[2]), W(dT)), 7))
FirstOrderOFF(C, dT) ==
    WAdd(WMul(W(C[2]), W(65536)), WDivPow2(WMul(W(C[4]), W(dT)), 7))
\* int64_t SENS = (int64_t)C[0] * 32768 + (int64_t)C[2] * dT / 256;
FirstOrderSENS(C, dT) ==
    WAdd(WMul(W(C[1]), W(32768)), WDivPow2(WMul(W(C[3]), W(dT)), 8))

\* uint32_t result = (D1 * SENS / 2097152 - OFF) / 32768; returned as int32_t
PressureOf(D1, SENS, OFF) ==
    WToInt32(WDivPow2(WSub(WDivPow2(WMul(W(D1), SENS), 21), OFF), 15))

\* OFF = OFF - myOFF2; SENS = SENS - mySENS2; and the result
PressureSecondOrder(D1, OFF, SENS, so) ==
    [ret |-> PressureOf(D1, WSub(SENS, so.SENS2), WSub(OFF, so.OFF2)),
     OFF2 |-> so.OFF2, SENS2 |-> so.SENS2]

\* lines 238-267 and 360-388, which are the same text: the returned pressure and
\* the members myOFF2 and mySENS2 (untouched when second is FALSE)
PressureOfDeltaTStale(C, D1, dT, second, wide, off2, sens2) ==
    PressureSecondOrder(D1, FirstOrderOFF(C, dT), FirstOrderSENS(C, dT),
                        IF second THEN SecondOrderOffSens(FirstOrderTEMP(C, dT), wide)
                        ELSE [OFF2 |-> off2, SENS2 |-> sens2])
PressureOfDeltaT(C, D1, dT, second, wide, off2, sens2) ==
    IF second
    THEN PressureSecondOrder(D1, FirstOrderOFF(C, dT), FirstOrderSENS(C, dT),
                             SecondOrderOffSens(FirstOrderTEMP(C, dT), wide))
    ELSE [ret |-> PressureOf(D1, FirstOrderSENS(C, dT), FirstOrderOFF(C, dT)),
          OFF2 |-> off2, SENS2 |-> sens2]

\* calcTemperatureCompensatedPressure()
calcTemperatureCompensatedPressure(C, aRawPressure, aRawTemperature, second, wide, off2, sens2) ==
    PressureOfDeltaT(C, aRawPressure, DeltaT(C, aRawTemperature), second, wide, off2, sens2)

\* readPressure(aCompensation), after its two blocking raw reads returned D1, D2
readPressureCalc(C, D1, D2, aCompensation, wide, off2, sens2) ==
    PressureOfDeltaT(C, D1, DeltaT(C, D2), aCompensation, wide, off2, sens2)

\* readTemperature(aCompensation), after its blocking raw read returned D2: the
\* returned double, in hundredths of a degree, and the member myTEMP2
readTemperatureCalc(C, D2, aCompensation, wide) ==
    calcTemperatureOf(C, DeltaT(C, D2), aCompensation, wide)

(***************************************************************************)
(* Unsigned long arithmetic on two's-complement images                     *)
(***************************************************************************)
U32_MAX == -1

\* a + b modulo 2^32
UAdd(a, b) ==
    IF b > 0 /\ a > 2147483647 - b THEN (a - 2147483647) + (b - 2147483647) - 2
    ELSE a + b
\* a - b modulo 2^32
USub(a, b) ==
    IF b < 0 /\ a > 2147483647 + b THEN (a - 2147483647) - (b + 2147483647) - 2
    ELSE IF b > 0 /\ a < INT32_MIN + b THEN (a + 2147483647) - (b - 2147483647) + 2
    ELSE a - b
\* a < b and a > b as unsigned values
ULess(a, b) == IF (a < 0) = (b < 0) THEN a < b ELSE b < 0
UGreater(a, b) == ULess(b, a)

\* C++ integer division, b > 0: the quotient is truncated toward zero
TruncDiv(a, b) == IF a < 0 THEN -((-a) \div b) ELSE a \div b

(***************************************************************************)
(* Protocol constants (src/unnamed/part_000)                               *)
(***************************************************************************)
MS5611_CMD_ADC_READ == 0
MS5611_CMD_CONV_D1 == 64
MS5611_CMD_CONV_D2 == 80
PRESSURE_SEALEVEL == 101325
MS5611_ULTRA_HIGH_RES == 8
MS5611_HIGH_RES == 6
MS5611_STANDARD == 4
MS5611_LOW_POWER == 2
MS5611_ULTRA_LOW_POWER == 0

ms5611_osr_t == {MS5611_ULTRA_LOW_POWER, MS5611_LOW_POWER, MS5611_STANDARD,
                 MS5611_HIGH_RES, MS5611_ULTRA_HIGH_RES}

NONE == "NONE"
DIGITAL_PRESSURE_VALUE == "DIGITAL_PRESSURE_VALUE"
DIGITAL_TEMPERATURE_VALUE == "DIGITAL_TEMPERATURE_VALUE"

\* unsigned int myRunCnt: 16 bits on the AVR boards the library is written for
UINT_BITS == 16
UIntMod == Pow2(UINT_BITS)
\* if (myRunCnt == 100)
WARMUP_RUNS == 100

(***************************************************************************)
(* Altitude and the two IIR filters (fixed point)                          *)
(***************************************************************************)
\* 44330 * (1 - r^0.1902949) in cm at the ratios r = i * 2^14 ppm, i = 0 .. 86
AltitudeTable ==
    <<4433000, 2405733, 2119895, 1934354, 1793754, 1679270, 1582053, 1497184,
      1421628, 1353371, 1291002, 1233496, 1180078, 1130151, 1083243, 1038974,
      997034, 957165, 919153, 882813, 847990, 814550, 782376, 751364,
      721426, 692482, 664460, 637297, 610938, 585330, 560427, 536188,
      512573, 489549, 467083, 445146, 423711, 402752, 382247, 362175,
      342515, 323249, 304360, 285832, 267649, 249798, 232265, 215038,
      198106, 181456, 165080, 148967, 133107, 117493, 102115, 86966,
      72039, 57326, 42820, 28516, 14406, 486, -13251, -26809,
      -40195, -53412, -66465, -79359, -92099, -104687, -117129, -129427,
      -141587, -153610, -165500, -177261, -188896, -200408, -211799, -223072,
      -234231, -245277, -256213, -267042, -277766, -288386, -298906>>

\* aPressure / aSeaLevelPressure in ppm (long division, three decimal digits
\* at a time), for 0 <= aPressure < 1.39 * aSeaLevelPressure
RatioPpm(aPressure, aSeaLevelPressure) ==
    LET q == aPressure \div aSeaLevelPressure
        r0 == aPressure % aSeaLevelPressure
        f1 == (r0 * 1000) \div aSeaLevelPressure
        r1 == (r0 * 1000) % aSeaLevelPressure
        f2 == (r1 * 1000) \div aSeaLevelPressure
    IN  q * 1000000 + f1 * 1000 + f2

\* calcAltitude(): the barometric formula, interpolated linearly between the
\* entries of AltitudeTable; the result is in cm
calcAltitude(aPressure, aSeaLevelPressure) ==
    LET r == RatioPpm(aPressure, aSeaLevelPressure)
        i == r \div 16384
        f == r % 16384
        a0 == AltitudeTable[i + 1]
        a1 == AltitudeTable[i + 2]
    IN  a0 + WToInt(WDivPow2(WMul(W(a1 - a0), W(f)), 14))

\* y[i] = x[i] + beta * (y[i-1] - x[i]), beta in hundredths
IIRSwapped(x, yOld, beta) == yOld + TruncDiv(beta * (x - yOld), 100)
IIR(x, yOld, beta) == x + TruncDiv(beta * (yOld - x), 100)

\* the outcomes of converting the NaN or infinity of a division by dT = 0 to
\* int, which is as wide as unsigned int
DivByZeroOutcomes == {-Pow2(UINT_BITS - 1), 0, Pow2(UINT_BITS - 1) - 1}

\* calcVerticalSpeed(): the values myVerticalSpeed can take, and the statics
calcVerticalSpeed(smoothed, warmUp, vsOld, beta, tNow, tLast, altLast) ==
    LET dT == USub(tNow, tLast)
        altitude == calcAltitude(smoothed, PRESSURE_SEALEVEL)
        last == IF warmUp THEN altitude ELSE altLast
        vspeed == TruncDiv((altitude - last) * 1000, dT)
    IN  [speeds |-> IF dT = 0 THEN DivByZeroOutcomes ELSE {IIR(vspeed, vsOld, beta)},
         lastAltitude |-> altitude,
         lastTime |-> tNow]

(***************************************************************************)
(* The driver's state                                                      *)
(***************************************************************************)
VARIABLES
    \* calibration and configuration
    myCompensationValues, myuosr, myct, myDoSecondOrderCompensation,
    myPressureSmoothingFactor, myVerticalSpeedSmoothingFactor,
    \* acquisition state machine (nextRead is the static of triggerReadValues)
    myPendingValueType, nextRead, myRunCnt, myWarmUpPhase, myReferenceHeight,
    \* raw samples, compensated values and the second-order terms
    myRawPressureVal_D1, myRawTemperatureVal_D2, myPressureVal, myTemperatureVal,
    myTEMP2, myOFF2, mySENS2,
    \* filter pipeline (lastTime, lastAltitude are the statics of calcVerticalSpeed)
    mySmoothedPressureVal, myVerticalSpeed, lastTime, lastAltitude,
    \* environment: millis(), whether the bus answers a read, how the build
    \* treats an int32_t overflow
    now, busResponsive, ubWide,
    \* the caller: the API call in progress, its argument, its local D1, and the
    \* value the last read...() returned
    pc, callArg, callD1, apiResult,
    \* observation: the last operation, what its triggerReadValues() returned,
    \* the opcodes it wrote to the bus, the conversion command whose result it
    \* read from the ADC and the ms since that command (<<>> when it read
    \* nothing), the last conversion command and when it
    \* was sent, the ready steps of the blocking call, the
    \* latest ready steps in a row that run() made (counted up to StreakCap), the
    \* automatic recomputations of the reference height since begin()
    lastOp, retVal, busLog, adcRead, convCmd, convAt, callReady, runStreak, refUpdates

cfgVars == <<myCompensationValues, myuosr, myct, myDoSecondOrderCompensation,
             myPressureSmoothingFactor, myVerticalSpeedSmoothingFactor>>
smVars == <<myPendingValueType, nextRead, myRunCnt, myWarmUpPhase, myReferenceHeight>>
rawVars == <<myRawPressureVal_D1, myRawTemperatureVal_D2>>
compVars == <<myPressureVal, myTemperatureVal, myTEMP2, myOFF2, mySENS2>>
filterVars == <<mySmoothedPressureVal, myVerticalSpeed, lastTime, lastAltitude>>
envVars == <<now, busResponsive, ubWide>>
callVars == <<pc, callArg, callD1, apiResult>>
obsVars == <<lastOp, retVal, busLog, adcRead, convCmd, convAt, callReady, runStreak,
             refUpdates>>
vars == <<cfgVars, smVars, rawVars, compVars, filterVars, envVars, callVars, obsVars>>

(***************************************************************************)
(* Bounds and input sets of the model                                      *)
(***************************************************************************)
\* millis() when begin() returns, and how long the model runs after it
StartTime == 1000
Horizon == 6
\* the clock is this many ms before its wrap-around when begin() returns, and
\* the application makes at most this many ready steps around it
WrapLead == 4
WrapRuns == 5
\* ready steps in a row made by run() are counted up to this number
StreakCap == 2
\* a blocking call that has begun goes on for this long after Horizon
CallSlack == 8
\* the long run ends LongTail cycles after the second recomputation of the
\* reference height, and the application makes blocking reads only in the last
\* Burst cycles before the cycle counter wraps around
LongTail == 2
Burst == 2
\* the application that sets the smoothing factors polls for this many cycles
\* after the warm-up
FilterTail == 4

CalibDatasheet == <<40127, 36924, 23317, 23282, 33464, 28312>>
CalibMax == <<65535, 65535, 65535, 65535, 65535, 65535>>
CalibLow == <<65535, 0, 65535, 65535, 65535, 1>>
CalibZero == <<0, 0, 0, 0, 0, 0>>

\* what the sensor answers to an ADC read
RawPressures == {9085466, 9085766}
RawTemperatures == {8569150, 8540000}
\* the oversampling levels the application switches between
Levels == {MS5611_ULTRA_LOW_POWER, MS5611_LOW_POWER}
CompCalibs == {CalibDatasheet, CalibMax, CalibLow, CalibZero}
CompRawPressures == {0, 9085466, 16777215}
CompRawTemperatures == {0, 7969150, 8569150, 16777215}

(***************************************************************************)
(* setOversampling()                                                       *)
(***************************************************************************)
\* myct after setOversampling(osr): the switch has no default branch
setOversamplingCtFallThrough(osr, ct) == IF osr \in ms5611_osr_t THEN 10 ELSE ct
setOversamplingCt(osr, ct) ==
    CASE osr = MS5611_ULTRA_LOW_POWER -> 1
      [] osr = MS5611_LOW_POWER -> 2
      [] osr = MS5611_STANDARD -> 3
      [] osr = MS5611_HIGH_RES -> 5
      [] osr = MS5611_ULTRA_HIGH_RES -> 10
      [] OTHER -> ct

(***************************************************************************)
(* begin(): the state it leaves when the sensor answered d1 and d2 to its  *)
(* last pressure and temperature conversions and millis() is t0. f0 is     *)
(* myDoSecondOrderCompensation during begin(), which reads it before       *)
(* line 50 sets it.                                                        *)
(***************************************************************************)
InitAt(t0, Calibs, Osrs, SP, ST, Wides) ==
    \E C \in Calibs, osr \in Osrs, d1 \in SP, d2 \in ST, f0 \in BOOLEAN, wide \in Wides :
    \E ct \in {setOversamplingCt(osr, 0)},
       rp \in {readPressureCalc(C, d1, d2, TRUE, wide, W(0), W(0))},
       rt \in {readTemperatureCalc(C, d2, TRUE, wide)} :
    \E pf \in {calcTemperatureCompensatedPressure(C, d1, d2, f0, wide, rp.OFF2, rp.SENS2)} :
      \* the last two pressure-ready steps of the 50th readPressure(true)
      LET sB == IIR(pf.ret, rp.ret, 90)
          sC == IIR(pf.ret, sB, 90)
      IN  /\ myCompensationValues = C
          /\ myuosr = osr
          /\ myct = ct
          /\ myDoSecondOrderCompensation = FALSE
          /\ myPressureSmoothingFactor = 90
          /\ myVerticalSpeedSmoothingFactor = 90
          /\ myPendingValueType = DIGITAL_TEMPERATURE_VALUE
          /\ nextRead = UAdd(t0, ct)
          /\ myRunCnt = 0
          /\ myWarmUpPhase = TRUE
          /\ myReferenceHeight = calcAltitude(rp.ret, PRESSURE_SEALEVEL)
          /\ myRawPressureVal_D1 = d1
          /\ myRawTemperatureVal_D2 = d2
          /\ myPressureVal = pf.ret
          /\ myTemperatureVal = TruncDiv(rt.ret, 100)
          /\ myTEMP2 = rt.TEMP2
          /\ myOFF2 = rp.OFF2
          /\ mySENS2 = rp.SENS2
          /\ mySmoothedPressureVal = rp.ret
          /\ myVerticalSpeed = 0
          /\ lastTime = USub(t0, 3 * (ct + 1))
          /\ lastAltitude = calcAltitude(sC, PRESSURE_SEALEVEL)
          /\ now = t0
          /\ busResponsive = TRUE
          /\ ubWide = wide
          /\ pc = "idle"
          /\ callArg = TRUE
          /\ callD1 = d1
          /\ apiResult = rt.ret
          /\ lastOp = "begin"
          /\ retVal = TRUE
          /\ busLog = <<MS5611_CMD_ADC_READ, MS5611_CMD_CONV_D2 + osr>>
          /\ adcRead = <<MS5611_CMD_CONV_D2 + osr, ct + 1>>
          /\ convCmd = MS5611_CMD_CONV_D2 + osr
          /\ convAt = t0
          /\ callReady = 1
          /\ runStreak = 0
          /\ refUpdates = 0

(***************************************************************************)
(* triggerReadValues()                                                     *)
(***************************************************************************)
\* if (millis() > (nextRead))
ReadyAlways == TRUE
Ready == UGreater(now, nextRead)

\* readRegister24() spins in while(!Wire.available()) {} until bytes arrive
WillHang == Ready /\ myPendingValueType # NONE /\ ~busResponsive

\* lines 130-136: the cycle counter and the end of the warm-up phase
NextRunCntStuck(cnt) == cnt
NextRunCnt(cnt) == (cnt + 1) % UIntMod

\* line 135, reached when myRunCnt has become 100: the reference height from
\* the smoothed pressure as it is before the pending result is read
WarmUpReferenceKept(warmEnd, smoothed, reference) == reference
WarmUpReference(warmEnd, smoothed, reference) ==
    IF warmEnd THEN calcAltitude(smoothed, PRESSURE_SEALEVEL) ELSE reference

\* lines 165-181: the kind of the next conversion
NextKindStopWhenDelivered(aRequestType, cnt, pending) ==
    IF aRequestType # NONE
    THEN (IF aRequestType = pending THEN NONE ELSE aRequestType)
    ELSE IF cnt % 2 = 0 THEN DIGITAL_TEMPERATURE_VALUE
    ELSE DIGITAL_PRESSURE_VALUE
NextKindByPending(aRequestType, cnt, pending) ==
    IF aRequestType # NONE THEN aRequestType
    ELSE IF pending = DIGITAL_PRESSURE_VALUE THEN DIGITAL_TEMPERATURE_VALUE
    ELSE DIGITAL_PRESSURE_VALUE
NextKind(aRequestType, cnt, pending) ==
    IF aRequestType # NONE THEN aRequestType
    ELSE IF cnt % 2 = 0 THEN DIGITAL_TEMPERATURE_VALUE
    ELSE DIGITAL_PRESSURE_VALUE

ConvOpcodeNoOsr(kind, uosr) ==
    IF kind = DIGITAL_TEMPERATURE_VALUE THEN MS5611_CMD_CONV_D2
    ELSE MS5611_CMD_CONV_D1
ConvOpcodeSwapped(kind, uosr) ==
    IF kind = DIGITAL_TEMPERATURE_VALUE THEN MS5611_CMD_CONV_D1 + uosr
    ELSE MS5611_CMD_CONV_D2 + uosr
ConvOpcode(kind, uosr) ==
    IF kind = DIGITAL_TEMPERATURE_VALUE THEN MS5611_CMD_CONV_D2 + uosr
    ELSE MS5611_CMD_CONV_D1 + uosr

\* line 191: nextRead = millis() + myct
NextDeadlineNoWait(tNow, ct) == tNow
NextDeadline(tNow, ct) == UAdd(tNow, ct)

\* lines 147-148: calcTemperature() and calcTemperatureCompensatedPressure() on
\* the raw pressure adc and the raw temperature member
Compensate(adc) ==
    \E t \in {calcTemperature(myCompensationValues, myRawTemperatureVal_D2,
                              myDoSecondOrderCompensation, ubWide)},
       pr \in {calcTemperatureCompensatedPressure(myCompensationValues, adc,
                   myRawTemperatureVal_D2, myDoSecondOrderCompensation, ubWide,
                   myOFF2, mySENS2)} :
        /\ myTemperatureVal' = t.ret
        /\ myTEMP2' = t.TEMP2
        /\ myPressureVal' = pr.ret
        /\ myOFF2' = pr.OFF2
        /\ mySENS2' = pr.SENS2

\* lines 144-152: a pressure result adc arrived
PressureReadyFilterFirst(adc, warmUp) ==
    /\ myRawPressureVal_D1' = adc
    /\ Compensate(adc)
    /\ \E smoothed \in {IIR(myPressureVal, mySmoothedPressureVal,
                              myPressureSmoothingFactor)} :
       \E vs \in {calcVerticalSpeed(smoothed, warmUp, myVerticalSpeed,
                       myVerticalSpeedSmoothingFactor, now, lastTime, lastAltitude)} :
           /\ mySmoothedPressureVal' = smoothed
           /\ myVerticalSpeed' \in vs.speeds
           /\ lastAltitude' = vs.lastAltitude
           /\ lastTime' = vs.lastTime
    /\ UNCHANGED myRawTemperatureVal_D2
PressureReady(adc, warmUp) ==
    /\ myRawPressureVal_D1' = adc
    /\ Compensate(adc)
    /\ \E smoothed \in {IIR(myPressureVal', mySmoothedPressureVal,
                              myPressureSmoothingFactor)} :
       \E vs \in {calcVerticalSpeed(smoothed, warmUp, myVerticalSpeed,
                       myVerticalSpeedSmoothingFactor, now, lastTime, lastAltitude)} :
           /\ mySmoothedPressureVal' = smoothed
           /\ myVerticalSpeed' \in vs.speeds
           /\ lastAltitude' = vs.lastAltitude
           /\ lastTime' = vs.lastTime
    /\ UNCHANGED myRawTemperatureVal_D2

\* lines 153-154: a temperature result adc arrived
TemperatureReadyAll(adc) ==
    /\ myRawTemperatureVal_D2' = adc
    /\ myTemperatureVal' = calcTemperature(myCompensationValues, adc,
                               myDoSecondOrderCompensation, ubWide).ret
    /\ UNCHANGED <<myRawPressureVal_D1, myPressureVal, myTEMP2, myOFF2, mySENS2, filterVars>>
TemperatureReady(adc) ==
    /\ myRawTemperatureVal_D2' = adc
    /\ UNCHANGED <<myRawPressureVal_D1, compVars, filterVars>>

\* the else branch of line 193: nothing happens
NotReadyStepCounts ==
    /\ retVal' = FALSE
    /\ busLog' = <<>>
    /\ adcRead' = <<>>
    /\ myRunCnt' = NextRunCnt(myRunCnt)
    /\ UNCHANGED <<myPendingValueType, nextRead, myWarmUpPhase, myReferenceHeight,
                   rawVars, compVars, filterVars, convCmd, convAt, refUpdates>>
NotReadyStep ==
    /\ retVal' = FALSE
    /\ busLog' = <<>>
    /\ adcRead' = <<>>
    /\ UNCHANGED <<smVars, rawVars, compVars, filterVars, convCmd, convAt, refUpdates>>

\* the step, with the sensor answering an ADC read from SP (pressure) or ST
\* (temperature)
triggerReadValues(aRequestType, SP, ST) ==
    IF ~Ready THEN NotReadyStep
    ELSE
      LET cnt == NextRunCnt(myRunCnt)
          warmEnd == cnt = WARMUP_RUNS
          warmUp == IF warmEnd THEN FALSE ELSE myWarmUpPhase
          kind == NextKind(aRequestType, cnt, myPendingValueType)
      IN  /\ myRunCnt' = cnt
          /\ myWarmUpPhase' = warmUp
          /\ myReferenceHeight' =
                 WarmUpReference(warmEnd, mySmoothedPressureVal, myReferenceHeight)
          /\ refUpdates' = IF warmEnd THEN refUpdates + 1 ELSE refUpdates
          /\ adcRead' = IF myPendingValueType = NONE THEN <<>>
                        ELSE <<convCmd, USub(now, convAt)>>
          /\ IF WillHang
             THEN /\ busLog' = <<MS5611_CMD_ADC_READ>>
                  /\ UNCHANGED <<myPendingValueType, nextRead, rawVars, compVars,
                                 filterVars, retVal, convCmd, convAt>>
             ELSE /\ CASE myPendingValueType = DIGITAL_PRESSURE_VALUE ->
                            \E adc \in SP : PressureReady(adc, warmUp)
                       [] myPendingValueType = DIGITAL_TEMPERATURE_VALUE ->
                            \E adc \in ST : TemperatureReady(adc)
                       [] OTHER -> UNCHANGED <<rawVars, compVars, filterVars>>
                  /\ retVal' = (aRequestType = myPendingValueType)
                  /\ myPendingValueType' = kind
                  /\ busLog' = (IF myPendingValueType = NONE THEN <<>>
                                ELSE <<MS5611_CMD_ADC_READ>>)
                               \o <<ConvOpcode(kind, myuosr)>>
                  /\ convCmd' = ConvOpcode(kind, myuosr)
                  /\ convAt' = now
                  /\ nextRead' = NextDeadline(now, myct)

(***************************************************************************)
(* The API calls                                                           *)
(***************************************************************************)
\* run(): one step with no kind requested
run(SP, ST) ==
    /\ pc = "idle"
    /\ triggerReadValues(NONE, SP, ST)
    /\ pc' = IF WillHang THEN "hung" ELSE "idle"
    /\ lastOp' = "run"
    /\ runStreak' = IF ~Ready THEN runStreak
                    ELSE IF runStreak < StreakCap THEN runStreak + 1 ELSE StreakCap
    /\ UNCHANGED <<cfgVars, envVars, callArg, callD1, apiResult, callReady>>

\* one iteration of while (!triggerReadValues(kind)) { delay(1); } in the call
\* named self, which goes on at done when the loop ends
BlockingLoop(kind, self, done, SP, ST) ==
    /\ triggerReadValues(kind, SP, ST)
    /\ callReady' = (IF pc = self THEN callReady ELSE 0) + (IF Ready THEN 1 ELSE 0)
    /\ runStreak' = IF Ready THEN 0 ELSE runStreak
    /\ IF WillHang THEN pc' = "hung" /\ UNCHANGED now
       ELSE IF retVal' THEN pc' = done /\ UNCHANGED now
       ELSE pc' = self /\ now' = UAdd(now, 1)
    /\ UNCHANGED <<cfgVars, busResponsive, ubWide>>

\* uint32_t readRawPressure(void)
readRawPressure(SP, ST) ==
    /\ pc \in {"idle", "readRawPressure"}
    /\ BlockingLoop(DIGITAL_PRESSURE_VALUE, "readRawPressure", "idle", SP, ST)
    /\ lastOp' = "readRawPressure"
    /\ apiResult' = IF pc' = "idle" THEN myRawPressureVal_D1' ELSE apiResult
    /\ UNCHANGED <<callArg, callD1>>

\* uint32_t readRawTemperature(void)
readRawTemperature(SP, ST) ==
    /\ pc \in {"idle", "readRawTemperature"}
    /\ BlockingLoop(DIGITAL_TEMPERATURE_VALUE, "readRawTemperature", "idle", SP, ST)
    /\ lastOp' = "readRawTemperature"
    /\ apiResult' = IF pc' = "idle" THEN myRawTemperatureVal_D2' ELSE apiResult
    /\ UNCHANGED <<callArg, callD1>>

\* readPressure(aCompensation) from line 358 on: the arithmetic on the D1 and D2
\* its raw reads returned, and the return
readPressureReturn(aCompensation, D1) ==
    /\ \E r \in {readPressureCalc(myCompensationValues, D1, myRawTemperatureVal_D2,
                                   aCompensation, ubWide, myOFF2, mySENS2)} :
           /\ apiResult' = r.ret
           /\ myOFF2' = r.OFF2
           /\ mySENS2' = r.SENS2
    /\ pc' = "idle"
    /\ callArg' = aCompensation
    /\ callD1' = D1
    /\ busLog' = <<>>
    /\ adcRead' = <<>>
    /\ UNCHANGED <<cfgVars, smVars, rawVars, myPressureVal, myTemperatureVal, myTEMP2,
                   filterVars, envVars, retVal, convCmd, convAt,
                   callReady, runStreak, refUpdates>>

\* int32_t readPressure(bool aCompensation): D1 = readRawPressure(), then
\* D2 = readRawTemperature(), then the arithmetic
readPressure(aCompensation, SP, ST) ==
    /\ lastOp' = "readPressure"
    /\ \/ /\ pc \in {"idle", "readPressure.D1"}
          /\ pc # "idle" => aCompensation = callArg
          /\ BlockingLoop(DIGITAL_PRESSURE_VALUE, "readPressure.D1", "readPressure.D2",
                          SP, ST)
          /\ callArg' = aCompensation
          /\ callD1' = IF pc' = "readPressure.D2" THEN myRawPressureVal_D1' ELSE callD1
          /\ UNCHANGED apiResult
       \/ /\ pc = "readPressure.D2"
          /\ aCompensation = callArg
          /\ BlockingLoop(DIGITAL_TEMPERATURE_VALUE, "readPressure.D2", "readPressure.calc",
                          SP, ST)
          /\ UNCHANGED <<callArg, callD1, apiResult>>
       \/ /\ pc = "readPressure.calc"
          /\ aCompensation = callArg
          /\ readPressureReturn(aCompensation, callD1)

\* readTemperature(aCompensation) from line 398 on; the returned double is kept
\* in hundredths of a degree
readTemperatureReturn(aCompensation) ==
    /\ \E r \in {readTemperatureCalc(myCompensationValues, myRawTemperatureVal_D2,
                                      aCompensation, ubWide)} :
           /\ apiResult' = r.ret
           /\ myTEMP2' = r.TEMP2
    /\ pc' = "idle"
    /\ callArg' = aCompensation
    /\ busLog' = <<>>
    /\ adcRead' = <<>>
    /\ UNCHANGED <<cfgVars, smVars, rawVars, myPressureVal, myTemperatureVal, myOFF2,
                   mySENS2, filterVars, envVars, callD1, retVal, convCmd,
                   convAt, callReady, runStreak, refUpdates>>

\* double readTemperature(bool aCompensation)
readTemperature(aCompensation, SP, ST) ==
    /\ lastOp' = "readTemperature"
    /\ \/ /\ pc \in {"idle", "readTemperature.D2"}
          /\ pc # "idle" => aCompensation = callArg
          /\ BlockingLoop(DIGITAL_TEMPERATURE_VALUE, "readTemperature.D2",
                          "readTemperature.calc", SP, ST)
          /\ callArg' = aCompensation
          /\ UNCHANGED <<callD1, apiResult>>
       \/ /\ pc = "readTemperature.calc"
          /\ aCompensation = callArg
          /\ readTemperatureReturn(aCompensation)

\* void setOversampling(ms5611_osr_t osr)
setOversampling(osr) ==
    /\ pc = "idle"
    /\ myct' = setOversamplingCt(osr, myct)
    /\ myuosr' = osr
    /\ lastOp' = "setOversampling"
    /\ busLog' = <<>>
    /\ adcRead' = <<>>
    /\ UNCHANGED <<myCompensationValues, myDoSecondOrderCompensation,
                   myPressureSmoothingFactor, myVerticalSpeedSmoothingFactor,
                   smVars, rawVars, compVars, filterVars, envVars, callVars,
                   retVal, convCmd, convAt, callReady, runStreak, refUpdates>>

\* ms5611_osr_t getOversampling(void)
getOversampling == myuosr

\* void setSecondOrderCompenstation(bool aDoCompensate)
setSecondOrderCompenstation(aDoCompensate) ==
    /\ pc = "idle"
    /\ myDoSecondOrderCompensation' = aDoCompensate
    /\ lastOp' = "setSecondOrderCompenstation"
    /\ busLog' = <<>>
    /\ adcRead' = <<>>
    /\ UNCHANGED <<myCompensationValues, myuosr, myct,
                   myPressureSmoothingFactor, myVerticalSpeedSmoothingFactor,
                   smVars, rawVars, compVars, filterVars, envVars, callVars,
                   retVal, convCmd, convAt, callReady, runStreak, refUpdates>>

\* double getReferenceHeight(void), in cm
getReferenceHeight == myReferenceHeight

\* double calcRelAltitude(double aPressure), in cm
calcRelAltitudeAbsolute(aPressure) == calcAltitude(aPressure, PRESSURE_SEALEVEL)
calcRelAltitude(aPressure) ==
    calcAltitude(aPressure, PRESSURE_SEALEVEL) - myReferenceHeight

\* void setPressureSmoothingFactor(double aFactor), aFactor in hundredths
setPressureSmoothingFactor(aFactor) ==
    /\ pc = "idle"
    /\ myPressureSmoothingFactor' = aFactor
    /\ lastOp' = "setPressureSmoothingFactor"
    /\ busLog' = <<>>
    /\ adcRead' = <<>>
    /\ UNCHANGED <<myCompensationValues, myuosr, myct, myDoSecondOrderCompensation,
                   myVerticalSpeedSmoothingFactor,
                   smVars, rawVars, compVars, filterVars, envVars, callVars,
                   retVal, convCmd, convAt, callReady, runStreak, refUpdates>>

\* void setVerticalSpeedSmoothingFactor(double aFactor), aFactor in hundredths
setVerticalSpeedSmoothingFactor(aFactor) ==
    /\ pc = "idle"
    /\ myVerticalSpeedSmoothingFactor' = aFactor
    /\ lastOp' = "setVerticalSpeedSmoothingFactor"
    /\ busLog' = <<>>
    /\ adcRead' = <<>>
    /\ UNCHANGED <<myCompensationValues, myuosr, myct, myDoSecondOrderCompensation,
                   myPressureSmoothingFactor,
                   smVars, rawVars, compVars, filterVars, envVars, callVars,
                   retVal, convCmd, convAt, callReady, runStreak, refUpdates>>

(***************************************************************************)
(* The environment                                                         *)
(***************************************************************************)
\* a millisecond passes between two calls of the application's loop
Tick(t0) ==
    /\ pc = "idle"
    /\ USub(now, t0) < Horizon
    /\ now' = UAdd(now, 1)
    /\ lastOp' = "tick"
    /\ busLog' = <<>>
    /\ adcRead' = <<>>
    /\ UNCHANGED <<cfgVars, smVars, rawVars, compVars, filterVars, busResponsive, ubWide,
                   callVars, retVal, convCmd, convAt, callReady, runStreak, refUpdates>>

\* the application's loop comes back right after the conversion time
AwaitReady ==
    /\ pc = "idle"
    /\ ~Ready
    /\ nextRead # U32_MAX
    /\ now' = UAdd(nextRead, 1)
    /\ lastOp' = "tick"
    /\ busLog' = <<>>
    /\ adcRead' = <<>>
    /\ UNCHANGED <<cfgVars, smVars, rawVars, compVars, filterVars, busResponsive, ubWide,
                   callVars, retVal, convCmd, convAt, callReady, runStreak, refUpdates>>

\* the sensor stops answering: from now on no read makes its bytes available
BusFails ==
    /\ pc = "idle"
    /\ busResponsive
    /\ busResponsive' = FALSE
    /\ lastOp' = "busFails"
    /\ busLog' = <<>>
    /\ adcRead' = <<>>
    /\ UNCHANGED <<cfgVars, smVars, rawVars, compVars, filterVars, now, ubWide,
                   callVars, retVal, convCmd, convAt, callReady, runStreak, refUpdates>>

(***************************************************************************)
(* Specifications                                                          *)
(***************************************************************************)
\* the calls of the application begin within Horizon of t0
InTime(t0) ==
    USub(now, t0) < (IF pc = "idle" THEN Horizon ELSE Horizon + CallSlack)

\* the driver in an application that polls run(), reads raw values blocking and
\* reconfigures, with every timing of the calls
Init == InitAt(StartTime, {CalibDatasheet}, {MS5611_ULTRA_LOW_POWER},
               RawPressures, RawTemperatures, {FALSE})
Next ==
    \/ Tick(StartTime)
    \/ run(RawPressures, RawTemperatures)
    \/ InTime(StartTime) /\ readRawPressure(RawPressures, RawTemperatures)
    \/ InTime(StartTime) /\ readRawTemperature(RawPressures, RawTemperatures)
    \/ \E osr \in Levels : setOversampling(osr)
    \/ \E b \in BOOLEAN : setSecondOrderCompenstation(b)
    \/ BusFails
Spec == Init /\ [][Next]_vars

\* the same application with begin() returning WrapLead ms before millis()
\* wraps around
T0Wrap == USub(0, WrapLead)
InitWrap == InitAt(T0Wrap, {CalibDatasheet}, {MS5611_ULTRA_LOW_POWER},
                   {9085466}, {8569150}, {FALSE})
NextWrap ==
    \/ Tick(T0Wrap)
    \/ myRunCnt < WrapRuns /\ run({9085466}, {8569150})
    \/ myRunCnt < WrapRuns /\ InTime(T0Wrap) /\ readRawPressure({9085466}, {8569150})
    \/ myRunCnt < WrapRuns /\ InTime(T0Wrap) /\ readRawTemperature({9085466}, {8569150})
SpecWrap == InitWrap /\ [][NextWrap]_vars

\* a steady sensor polled as soon as each conversion is over, until the cycle
\* counter has wrapped around and passed the warm-up boundary again
LongOver == refUpdates > 1 /\ myRunCnt >= WARMUP_RUNS + LongTail
InBurst == myRunCnt >= UIntMod - Burst
\* the sensor is at one height until the warm-up is over and higher afterwards
LongPressures == IF refUpdates = 0 THEN {9085766} ELSE {9085466}
InitLong == InitAt(StartTime, {CalibDatasheet}, {MS5611_ULTRA_LOW_POWER},
                   {9085766}, {8569150}, {FALSE})
NextLong ==
    \/ ~LongOver /\ AwaitReady
    \/ ~LongOver /\ Ready /\ run(LongPressures, {8569150})
    \/ InBurst /\ readRawPressure(LongPressures, {8569150})
    \/ InBurst /\ readRawTemperature(LongPressures, {8569150})
SpecLong == InitLong /\ [][NextLong]_vars

\* an application that also passes setOversampling() values that are none of
\* the enumerators of ms5611_osr_t
OutOfRangeLevels == {MS5611_LOW_POWER + 1, MS5611_ULTRA_HIGH_RES + 2}
NextOsr ==
    \/ Tick(StartTime)
    \/ run(RawPressures, RawTemperatures)
    \/ \E osr \in Levels \cup OutOfRangeLevels : setOversampling(osr)
SpecOsr == Init /\ [][NextOsr]_vars

\* an application that begins with any of the five levels and switches between
\* all of them while it polls run()
InitLevels == InitAt(StartTime, {CalibDatasheet}, ms5611_osr_t,
                     {9085466}, {8569150}, {FALSE})
NextLevels ==
    \/ Tick(StartTime)
    \/ run({9085466}, {8569150})
    \/ \E osr \in ms5611_osr_t : setOversampling(osr)
SpecLevels == InitLevels /\ [][NextLevels]_vars

\* a sensor polled as soon as each conversion is over, steady during the
\* warm-up at another height than in begin() and changing from its last cycle
\* on, in an
\* application that sets the smoothing factors and the second-order flag once
\* the warm-up is over
FilterOver == myRunCnt >= WARMUP_RUNS + FilterTail
Settling == myRunCnt < WARMUP_RUNS - 1
Factors == {0, 90}
NextFilter ==
    \/ ~FilterOver /\ AwaitReady
    \/ ~FilterOver /\ Ready
          /\ run(IF Settling THEN {9085466} ELSE RawPressures,
                 IF Settling THEN {8569150} ELSE RawTemperatures)
    \/ myRunCnt >= WARMUP_RUNS
          /\ \E f \in Factors : setPressureSmoothingFactor(f)
    \/ myRunCnt >= WARMUP_RUNS
          /\ \E f \in Factors : setVerticalSpeedSmoothingFactor(f)
    \/ myRunCnt >= WARMUP_RUNS
          /\ \E b \in BOOLEAN : setSecondOrderCompenstation(b)
SpecFilter == InitLong /\ [][NextFilter]_vars

\* begin() from line 39 on: reset(), setOversampling(), delay(100) and
\* readPROM() are done, nothing is pending and the statics have their initial
\* values; the members begin() has not assigned yet are zero in an object with
\* static storage and anything in another one
BeginTime == 100
InitBegin ==
    \E cnt \in {0, WARMUP_RUNS - 2}, warm \in BOOLEAN, second \in BOOLEAN :
        /\ myCompensationValues = CalibDatasheet
        /\ myuosr = MS5611_ULTRA_LOW_POWER
        /\ myct = setOversamplingCt(MS5611_ULTRA_LOW_POWER, 0)
        /\ myDoSecondOrderCompensation = second
        /\ myPressureSmoothingFactor = 90
        /\ myVerticalSpeedSmoothingFactor = 0
        /\ myPendingValueType = NONE
        /\ nextRead = 0
        /\ myRunCnt = cnt
        /\ myWarmUpPhase = warm
        /\ myReferenceHeight = 0
        /\ myRawPressureVal_D1 = 0
        /\ myRawTemperatureVal_D2 = 0
        /\ myPressureVal = 0
        /\ myTemperatureVal = 0
        /\ myTEMP2 = 0
        /\ myOFF2 = W(0)
        /\ mySENS2 = W(0)
        /\ mySmoothedPressureVal = 0
        /\ myVerticalSpeed = 0
        /\ lastTime = 0
        /\ lastAltitude = 0
        /\ now = BeginTime
        /\ busResponsive = TRUE
        /\ ubWide = FALSE
        /\ pc = "idle"
        /\ callArg = TRUE
        /\ callD1 = 0
        /\ apiResult = 0
        /\ lastOp = "readPROM"
        /\ retVal = FALSE
        /\ busLog = <<>>
        /\ adcRead = <<>>
        /\ convCmd = 0
        /\ convAt = 0
        /\ callReady = 0
        /\ runStreak = 0
        /\ refUpdates = 0

\* the blocking reads begin() makes, in any number and order
NextBegin ==
    \/ Tick(BeginTime)
    \/ InTime(BeginTime) /\ readPressure(TRUE, {9085466}, RawTemperatures)
    \/ InTime(BeginTime) /\ readTemperature(TRUE, {9085466}, RawTemperatures)
    \/ InTime(BeginTime) /\ readRawTemperature({9085466}, RawTemperatures)
    \/ InTime(BeginTime) /\ readRawPressure({9085466}, RawTemperatures)
SpecBegin == InitBegin /\ [][NextBegin]_vars

\* the compensation arithmetic on its own: the driver holds the coefficients C
\* read from the PROM and the raw samples d1 and d2, and the application makes
\* the calls that compute with them
InitComp ==
    \E C \in CompCalibs, d1 \in CompRawPressures, d2 \in CompRawTemperatures,
       wide \in BOOLEAN :
        /\ myCompensationValues = C
        /\ myuosr = MS5611_ULTRA_LOW_POWER
        /\ myct = 1
        /\ myDoSecondOrderCompensation = FALSE
        /\ myPressureSmoothingFactor = 90
        /\ myVerticalSpeedSmoothingFactor = 90
        /\ myPendingValueType = NONE
        /\ nextRead = 0
        /\ myRunCnt = 0
        /\ myWarmUpPhase = TRUE
        /\ myReferenceHeight = 0
        /\ myRawPressureVal_D1 = d1
        /\ myRawTemperatureVal_D2 = d2
        /\ myPressureVal = 0
        /\ myTemperatureVal = 0
        /\ myTEMP2 = 0
        /\ myOFF2 = W(0)
        /\ mySENS2 = W(0)
        /\ mySmoothedPressureVal = 0
        /\ myVerticalSpeed = 0
        /\ lastTime = 0
        /\ lastAltitude = 0
        /\ now = StartTime
        /\ busResponsive = TRUE
        /\ ubWide = wide
        /\ pc = "idle"
        /\ callArg = FALSE
        /\ callD1 = d1
        /\ apiResult = 0
        /\ lastOp = "readPROM"
        /\ retVal = FALSE
        /\ busLog = <<>>
        /\ adcRead = <<>>
        /\ convCmd = 0
        /\ convAt = 0
        /\ callReady = 0
        /\ runStreak = 0
        /\ refUpdates = 0

\* lines 147-148 on the raw samples held
CompensateSample ==
    /\ pc = "idle"
    /\ Compensate(myRawPressureVal_D1)
    /\ lastOp' = "compensate"
    /\ busLog' = <<>>
    /\ adcRead' = <<>>
    /\ UNCHANGED <<cfgVars, smVars, rawVars, filterVars, envVars, callVars, retVal,
                   convCmd, convAt, callReady, runStreak, refUpdates>>

\* the arithmetic of readPressure() on the raw samples held
ReadPressureSample(aCompensation) ==
    /\ pc = "idle"
    /\ readPressureReturn(aCompensation, myRawPressureVal_D1)
    /\ lastOp' = "readPressure"

\* the arithmetic of readTemperature() on the raw sample held
ReadTemperatureSample(aCompensation) ==
    /\ pc = "idle"
    /\ readTemperatureReturn(aCompensation)
    /\ lastOp' = "readTemperature"

NextComp ==
    \/ CompensateSample
    \/ \E b \in BOOLEAN : ReadPressureSample(b)
    \/ \E b \in BOOLEAN : ReadTemperatureSample(b)
    \/ \E b \in BOOLEAN : setSecondOrderCompenstation(b)
SpecComp == InitComp /\ [][NextComp]_vars

(***************************************************************************)
(* Properties                                                              *)
(***************************************************************************)
\* the conversion-start opcode cmd asks for a temperature conversion
IsTemperatureCmd(cmd) == cmd >= MS5611_CMD_CONV_D2

\* C1: when run() makes a ready step and the ready step before it was made by
\* run() too, the conversion it starts is of the other kind than the conversion
\* the step before started; so the commands of 2N ready steps in a row made by
\* run() alternate, N of each kind, also across the wrap-around of myRunCnt
C1_Alternation ==
    [][(lastOp' = "run" /\ Ready /\ pc' = "idle" /\ runStreak >= 1)
         => (IsTemperatureCmd(convCmd') # IsTemperatureCmd(convCmd))]_vars

\* run() made the ready step in which myRunCnt wrapped to 0 and the one before
C1_Witness ==
    lastOp = "run" /\ pc = "idle" /\ runStreak >= 2 /\ myRunCnt = 0 /\ refUpdates = 1

\* C4: the reference height changes after begin() only in the first ready step
\* in which myRunCnt becomes 100, and the warm-up flag is cleared by then
C4_ReferenceOnce ==
    [][(myReferenceHeight' # myReferenceHeight \/ refUpdates' # refUpdates)
         => (refUpdates = 0 /\ myRunCnt' = WARMUP_RUNS /\ ~myWarmUpPhase')]_vars

\* the conversion wait time in ms of the oversampling code in a conversion-start
\* opcode, as the sensor requires it
ConversionWaitMs(cmd) ==
    CASE cmd % 16 = 0 -> 1
      [] cmd % 16 = 2 -> 2
      [] cmd % 16 = 4 -> 3
      [] cmd % 16 = 6 -> 5
      [] cmd % 16 = 8 -> 10

\* C2: an ADC result is read no sooner than the wait time of the oversampling
\* level in its conversion-start command after that command, also when
\* setOversampling() changed the level in between
C2_NoPrematureRead ==
    adcRead # <<>> => adcRead[2] >= ConversionWaitMs(adcRead[1])

\* run() read the result of a conversion started at another level than the one
\* set now
C2_Witness ==
    /\ lastOp = "run"
    /\ pc = "idle"
    /\ adcRead # <<>>
    /\ adcRead[1] % 16 # myuosr

\* the operations that call triggerReadValues()
StepOps == {"run", "readRawPressure", "readRawTemperature"}

\* C3: a step before the deadline makes no bus transaction, returns false and
\* leaves the acquisition state, the raw samples, the compensated values and
\* the filter state as they are
C3_NotReadyNoOp ==
    [][(lastOp' \in StepOps /\ ~Ready)
         => /\ busLog' = <<>>
            /\ retVal' = FALSE
            /\ UNCHANGED <<myPendingValueType, nextRead, myRunCnt, myWarmUpPhase,
                           myReferenceHeight, myRawPressureVal_D1,
                           myRawTemperatureVal_D2, myPressureVal, myTemperatureVal,
                           mySmoothedPressureVal, myVerticalSpeed>>]_vars

\* run() was called before the deadline
C3_Witness ==
    lastOp = "run" /\ pc = "idle" /\ busLog = <<>> /\ ~retVal /\ ~Ready

\* C5: every call of run() returns, whatever the bus does
C5_RunReturns == ~(lastOp = "run" /\ pc = "hung")

\* C6: with the bus answering, a blocking raw read that is in its loop has made
\* at most one ready step and some later value of millis() makes its next step
\* ready, and one that has returned made one or two ready steps
C6_BlockingReadsReturn ==
    /\ pc \in {"readRawPressure", "readRawTemperature"}
         => (callReady <= 1 /\ nextRead # U32_MAX)
    /\ (pc = "idle" /\ lastOp \in {"readRawPressure", "readRawTemperature"})
         => callReady \in {1, 2}

\* C7: a ready step with a temperature conversion pending leaves the raw
\* pressure, the compensated values and the filter state as they are, and
\* these change only in a ready step with a pressure conversion pending
C7_TemperatureStepFrame ==
    [][/\ (lastOp' \in StepOps /\ Ready
             /\ myPendingValueType = DIGITAL_TEMPERATURE_VALUE)
          => UNCHANGED <<myRawPressureVal_D1, myPressureVal, myTemperatureVal,
                         mySmoothedPressureVal, myVerticalSpeed>>
       /\ ~UNCHANGED <<myPressureVal, myTemperatureVal, mySmoothedPressureVal,
                       myVerticalSpeed>>
          => (lastOp' \in StepOps /\ Ready
                /\ myPendingValueType = DIGITAL_PRESSURE_VALUE)]_vars

\* a ready step of run() read the result of a temperature conversion, and the
\* compensated temperature is not the one of the raw temperature held
C7_Witness ==
    /\ lastOp = "run"
    /\ pc = "idle"
    /\ adcRead # <<>>
    /\ IsTemperatureCmd(adcRead[1])
    /\ myTemperatureVal # calcTemperature(myCompensationValues, myRawTemperatureVal_D2,
                                          myDoSecondOrderCompensation, ubWide).ret

\* q is a / d with the fraction dropped: a = q * d + r with |r| < d and r of
\* the sign of a
IsTruncQuotient(a, d, q) ==
    \E r \in {WSub(a, WMul(q, W(d)))} :
        /\ MCmp(r.mag, W(d).mag) < 0
        /\ r.mag = <<>> \/ r.neg = a.neg

\* the quotient of a by 2^k truncated toward zero
ExactQuotient(a, k) == CHOOSE q \in {WDivPow2(a, k)} : IsTruncQuotient(a, Pow2(k), q)

\* the first-order formulas in exact integer arithmetic
ExactDT(C, D2) == D2 - C[5] * 256
ExactTEMP(C, D2) ==
    2000 + WToInt(ExactQuotient(WMul(W(ExactDT(C, D2)), W(C[6])), 23))
ExactOFF(C, D2) ==
    WAdd(WMul(W(C[2]), W(65536)), ExactQuotient(WMul(W(C[4]), W(ExactDT(C, D2))), 7))
ExactSENS(C, D2) ==
    WAdd(WMul(W(C[1]), W(32768)), ExactQuotient(WMul(W(C[3]), W(ExactDT(C, D2))), 8))
ExactP(C, D1, D2) ==
    ExactQuotient(WSub(ExactQuotient(WMul(W(D1), ExactSENS(C, D2)), 21), ExactOFF(C, D2)),
                  15)

\* C8: with second-order compensation off, the temperature and the pressure
\* computed in a pressure-ready step, by readPressure() and by readTemperature()
\* are the first-order formulas in exact integer arithmetic with truncating
\* divisions, sign included
C8_FirstOrderExact ==
    /\ (lastOp = "compensate" /\ ~myDoSecondOrderCompensation)
         => /\ myTemperatureVal = ExactTEMP(myCompensationValues, myRawTemperatureVal_D2)
            /\ W(myPressureVal) = ExactP(myCompensationValues, myRawPressureVal_D1,
                                         myRawTemperatureVal_D2)
    /\ (lastOp = "readPressure" /\ ~callArg)
         => W(apiResult) = ExactP(myCompensationValues, callD1, myRawTemperatureVal_D2)
    /\ (lastOp = "readTemperature" /\ ~callArg)
         => apiResult = ExactTEMP(myCompensationValues, myRawTemperatureVal_D2)

\* first-order values were computed where dT is negative and the pressure is
\* negative
C8_Witness ==
    /\ lastOp = "compensate"
    /\ ~myDoSecondOrderCompensation
    /\ ExactDT(myCompensationValues, myRawTemperatureVal_D2) < 0
    /\ myTemperatureVal < 2000
    /\ myPressureVal < 0

\* the second-order terms in exact integer arithmetic
ExactTEMP2(C, D2) ==
    IF ExactTEMP(C, D2) < 2000
    THEN WDivInt32Max(WMul(W(ExactDT(C, D2)), W(ExactDT(C, D2))))
    ELSE W(0)
ExactSquare5(TEMP) == WMul(W(5), WMul(W(TEMP - 2000), W(TEMP - 2000)))
ExactSquareE(TEMP) == WMul(W(TEMP + 1500), W(TEMP + 1500))
ExactOFF2(TEMP) ==
    WAdd(IF TEMP < 2000 THEN WDivPow2(ExactSquare5(TEMP), 1) ELSE W(0),
         IF TEMP < -1500 THEN WMul(W(7), ExactSquareE(TEMP)) ELSE W(0))
ExactSENS2(TEMP) ==
    WAdd(IF TEMP < 2000 THEN WDivPow2(ExactSquare5(TEMP), 2) ELSE W(0),
         IF TEMP < -1500 THEN WDivPow2(WMul(W(11), ExactSquareE(TEMP)), 1) ELSE W(0))

\* C9: the second-order terms a computation with second-order compensation on
\* leaves are the exact integers: no product in them wrapped modulo 2^32
C9_NoIntermediateOverflow ==
    /\ (\/ lastOp = "compensate" /\ myDoSecondOrderCompensation
        \/ lastOp = "readTemperature" /\ callArg)
         => W(myTEMP2) = ExactTEMP2(myCompensationValues, myRawTemperatureVal_D2)
    /\ (\/ lastOp = "compensate" /\ myDoSecondOrderCompensation
        \/ lastOp = "readPressure" /\ callArg)
         => /\ myOFF2 = ExactOFF2(ExactTEMP(myCompensationValues, myRawTemperatureVal_D2))
            /\ mySENS2 = ExactSENS2(ExactTEMP(myCompensationValues,
                                              myRawTemperatureVal_D2))

\* C10: where the first-order TEMP is at least 2000, the temperature and the
\* pressure computed with second-order compensation on are the first-order values
C10_SecondOrderNoOpWarm ==
    ExactTEMP(myCompensationValues, myRawTemperatureVal_D2) >= 2000
      => /\ (lastOp = "compensate" /\ myDoSecondOrderCompensation)
              => /\ myTemperatureVal = ExactTEMP(myCompensationValues,
                                                 myRawTemperatureVal_D2)
                 /\ W(myPressureVal) = ExactP(myCompensationValues, myRawPressureVal_D1,
                                              myRawTemperatureVal_D2)
         /\ (lastOp = "readPressure" /\ callArg)
              => W(apiResult) = ExactP(myCompensationValues, callD1,
                                       myRawTemperatureVal_D2)
         /\ (lastOp = "readTemperature" /\ callArg)
              => apiResult = ExactTEMP(myCompensationValues, myRawTemperatureVal_D2)

\* a pressure-ready computation with second-order compensation on at a
\* first-order TEMP far above 2000
C10_Witness ==
    /\ lastOp = "compensate"
    /\ myDoSecondOrderCompensation
    /\ ExactTEMP(myCompensationValues, myRawTemperatureVal_D2) >= 2000 + 1000
    /\ myPressureVal > 0

\* C11: a pressure-ready step made with second-order compensation off leaves
\* myTEMP2 at 0 and computes the first-order temperature and pressure from the
\* raw pair, whatever the members myOFF2 and mySENS2 hold from an earlier
\* computation with second-order compensation on
C11_DisabledIsFirstOrder ==
    [][(lastOp' \in StepOps /\ Ready /\ ~WillHang /\ ~myDoSecondOrderCompensation
          /\ myPendingValueType = DIGITAL_PRESSURE_VALUE)
         => /\ myTEMP2' = 0
            /\ myTemperatureVal' = ExactTEMP(myCompensationValues, myRawTemperatureVal_D2)
            /\ W(myPressureVal') = ExactP(myCompensationValues, myRawPressureVal_D1',
                                          myRawTemperatureVal_D2)]_vars

\* a pressure-ready step was made with second-order compensation off while
\* myOFF2 and mySENS2 hold the terms of an earlier computation
C11_Witness ==
    /\ lastOp \in StepOps
    /\ adcRead # <<>>
    /\ ~IsTemperatureCmd(adcRead[1])
    /\ ~myDoSecondOrderCompensation
    /\ myOFF2 # W(0)
    /\ mySENS2 # W(0)

C13_OutOfRangeNotApplied ==
    [][\A osr \in OutOfRangeLevels :
          setOversampling(osr) => UNCHANGED <<myuosr, myct>>]_vars

\* C14: setOversampling(L) with one of the five levels makes getOversampling()
\* return L and the wait constant the wait time of L, and while only these
\* levels are set (begin(L) included) the wait constant is the wait time of the
\* stored oversampling code in every state
C14_WaitMatchesLevel ==
    /\ [](/\ getOversampling \in ms5611_osr_t
          /\ myct = ConversionWaitMs(MS5611_CMD_CONV_D1 + getOversampling))
    /\ [][\A L \in ms5611_osr_t :
             setOversampling(L)
               => /\ getOversampling' = L
                  /\ myct' = ConversionWaitMs(MS5611_CMD_CONV_D1 + L)]_vars

\* setOversampling(MS5611_ULTRA_HIGH_RES) was called while a conversion started
\* at another level is pending
C14_Witness ==
    /\ lastOp = "setOversampling"
    /\ getOversampling = MS5611_ULTRA_HIGH_RES
    /\ myct = 10
    /\ convCmd % 16 # MS5611_ULTRA_HIGH_RES
    /\ myRunCnt >= 1

\* C15: after a pressure-ready step made with the pressure smoothing factor 0
\* the smoothed pressure is the compensated pressure of that step, and after one
\* made with the vertical-speed smoothing factor 0 the vertical speed is the
\* altitude difference of that step per second, whatever the two were before
C15_PassThroughAtZero ==
    [][(lastOp' \in StepOps /\ Ready /\ ~WillHang
          /\ myPendingValueType = DIGITAL_PRESSURE_VALUE)
         => /\ myPressureSmoothingFactor = 0 => mySmoothedPressureVal' = myPressureVal'
            /\ myVerticalSpeedSmoothingFactor = 0
                 => myVerticalSpeed' =
                      TruncDiv((calcAltitude(mySmoothedPressureVal', PRESSURE_SEALEVEL)
                                  - (IF myWarmUpPhase' THEN lastAltitude' ELSE lastAltitude))
                               * 1000,
                               USub(now, lastTime))]_vars

\* after the warm-up a pressure-ready step with both factors 0 left the
\* compensated pressure as the smoothed pressure and a sinking vertical speed
C15_Witness ==
    /\ lastOp = "run"
    /\ adcRead # <<>>
    /\ ~IsTemperatureCmd(adcRead[1])
    /\ myPressureSmoothingFactor = 0
    /\ myVerticalSpeedSmoothingFactor = 0
    /\ ~myWarmUpPhase
    /\ mySmoothedPressureVal = myPressureVal
    /\ myVerticalSpeed < 0
    /\ myRunCnt = WARMUP_RUNS + FilterTail

\* C16: with the calibration and the raw values of the data sheet's example and
\* second-order compensation off, dT is 2366, the temperature 2007 and the
\* pressure 100009
C16_DatasheetExample ==
    (/\ lastOp = "compensate"
     /\ ~myDoSecondOrderCompensation
     /\ myCompensationValues = CalibDatasheet
     /\ myRawPressureVal_D1 = 9085466
     /\ myRawTemperatureVal_D2 = 8569150)
      => /\ DeltaT(myCompensationValues, myRawTemperatureVal_D2) = 2366
         /\ myTemperatureVal = 2007
         /\ myPressureVal = 100009

\* the compensation ran on the data sheet's example with second-order
\* compensation off
C16_Witness ==
    /\ lastOp = "compensate"
    /\ ~myDoSecondOrderCompensation
    /\ myCompensationValues = <<40127, 36924, 23317, 23282, 33464, 28312>>
    /\ myRawPressureVal_D1 = 9085466
    /\ myRawTemperatureVal_D2 = 8569150
    /\ myTEMP2 = 0

\* the pressures in Pa the application asks the relative altitude of
RelPressures == {90000, 100009, PRESSURE_SEALEVEL, 110000}

\* C17: in every state calcRelAltitude(p) is calcAltitude(p) at the default
\* sea-level pressure minus the reference height getReferenceHeight() returns,
\* be it the one of begin() or the one recomputed after the warm-up
C17_RelAltitudeRoundTrip ==
    \A p \in RelPressures :
        calcRelAltitude(p) = calcAltitude(p, PRESSURE_SEALEVEL) - getReferenceHeight

\* the reference height was recomputed after the warm-up and is not the
\* altitude of every pressure asked for
C17_Witness ==
    /\ refUpdates = 1
    /\ ~myWarmUpPhase
    /\ getReferenceHeight > 0
    /\ \E p \in RelPressures : calcRelAltitude(p) < 0
    /\ \E p \in RelPressures : calcRelAltitude(p) > 0

\* the kind of conversion the conversion-start opcode cmd asks for
KindOfCmd(cmd) ==
    IF cmd - (cmd % 16) = MS5611_CMD_CONV_D2 THEN DIGITAL_TEMPERATURE_VALUE
    ELSE IF cmd - (cmd % 16) = MS5611_CMD_CONV_D1 THEN DIGITAL_PRESSURE_VALUE
    ELSE NONE

\* C18: the pending kind is always the kind of the conversion command sent
\* last, and a ready step stores the ADC value as raw pressure only after a
\* pressure command and as raw temperature only after a temperature command,
\* the new command carrying the oversampling code set
C18_ResultAttribution ==
    /\ [](myPendingValueType = KindOfCmd(convCmd))
    /\ [][(lastOp' \in StepOps /\ Ready /\ ~WillHang)
            => /\ KindOfCmd(convCmd) # DIGITAL_PRESSURE_VALUE
                    => UNCHANGED myRawPressureVal_D1
               /\ KindOfCmd(convCmd) # DIGITAL_TEMPERATURE_VALUE
                    => UNCHANGED myRawTemperatureVal_D2
               /\ convCmd' % 16 = myuosr]_vars

\* a blocking pressure read stored the result of a pressure conversion that was
\* started at another oversampling level than the one set now
C18_Witness ==
    /\ lastOp = "readRawPressure"
    /\ pc = "idle"
    /\ adcRead # <<>>
    /\ KindOfCmd(adcRead[1]) = DIGITAL_PRESSURE_VALUE
    /\ adcRead[1] % 16 # myuosr
    /\ apiResult = myRawPressureVal_D1

\* C19: a ready step that completes a pressure conversion keeps the raw
\* temperature, computes the temperature and the pressure from the new raw
\* pressure and that raw temperature with the second-order flag set, then
\* smooths the new pressure once, then derives the vertical speed once from the
\* altitude of the new smoothed pressure
C19_PressurePipeline ==
    [][(lastOp' \in StepOps /\ Ready /\ ~WillHang
          /\ myPendingValueType = DIGITAL_PRESSURE_VALUE)
         => /\ UNCHANGED myRawTemperatureVal_D2
            /\ myTemperatureVal' =
                   calcTemperature(myCompensationValues, myRawTemperatureVal_D2,
                                   myDoSecondOrderCompensation, ubWide).ret
            /\ myPressureVal' =
                   calcTemperatureCompensatedPressure(myCompensationValues,
                       myRawPressureVal_D1', myRawTemperatureVal_D2,
                       myDoSecondOrderCompensation, ubWide, myOFF2, mySENS2).ret
            /\ mySmoothedPressureVal' =
                   myPressureVal' + TruncDiv(myPressureSmoothingFactor
                                               * (mySmoothedPressureVal - myPressureVal'), 100)
            /\ lastAltitude' = calcAltitude(mySmoothedPressureVal', PRESSURE_SEALEVEL)
            /\ lastTime' = now
            /\ \E vspeed \in {TruncDiv((lastAltitude'
                                          - (IF myWarmUpPhase' THEN lastAltitude'
                                             ELSE lastAltitude)) * 1000,
                                       USub(now, lastTime))} :
                   myVerticalSpeed' =
                       vspeed + TruncDiv(myVerticalSpeedSmoothingFactor
                                           * (myVerticalSpeed - vspeed), 100)]_vars

\* after the warm-up a pressure-ready step with second-order compensation on
\* and both filters smoothing paired a new raw pressure with a cached cold raw
\* temperature
C19_Witness ==
    /\ lastOp = "run"
    /\ adcRead # <<>>
    /\ KindOfCmd(adcRead[1]) = DIGITAL_PRESSURE_VALUE
    /\ ~myWarmUpPhase
    /\ myDoSecondOrderCompensation
    /\ myTemperatureVal < 2000
    /\ myOFF2 # W(0)
    /\ myPressureSmoothingFactor # 0
    /\ myVerticalSpeedSmoothingFactor # 0
    /\ mySmoothedPressureVal # myPressureVal
    /\ myVerticalSpeed # 0

\* C20 as stated: when the ready step in which myRunCnt becomes 100 has
\* returned, the reference height is the altitude of the smoothed pressure as
\* that step left it
C20_ReferenceFromFilteredStep ==
    (myRunCnt = WARMUP_RUNS /\ refUpdates = 1 /\ pc = "idle")
      => getReferenceHeight = calcAltitude(mySmoothedPressureVal, PRESSURE_SEALEVEL)

\* C20 amended: the ready step in which myRunCnt becomes 100 clears the warm-up
\* flag and takes the reference height from the smoothed pressure as it was
\* before the step, whose pending result is read and filtered afterwards
C20_ReferenceBeforeRead ==
    [][(lastOp' \in StepOps /\ Ready /\ myRunCnt' = WARMUP_RUNS)
         => /\ ~myWarmUpPhase'
            /\ getReferenceHeight' = calcAltitude(mySmoothedPressureVal, PRESSURE_SEALEVEL)]_vars

\* the step in which myRunCnt became 100 completed a pressure conversion whose
\* filtering moved the smoothed pressure away from the one the reference
\* height was taken from
C20_Witness ==
    /\ lastOp = "run"
    /\ myRunCnt = WARMUP_RUNS
    /\ refUpdates = 1
    /\ ~myWarmUpPhase
    /\ adcRead # <<>>
    /\ KindOfCmd(adcRead[1]) = DIGITAL_PRESSURE_VALUE
    /\ getReferenceHeight # calcAltitude(mySmoothedPressureVal, PRESSURE_SEALEVEL)

\* C21: a ready step of a blocking raw read starts a conversion of the kind it
\* reads, and a ready step of run() starts a temperature conversion when the
\* cycle counter it has incremented is even and a pressure conversion when it
\* is odd, whatever kind the step has just read
C21_NextKindChoice ==
    [][(lastOp' \in StepOps /\ Ready /\ ~WillHang)
         => /\ myPendingValueType' = KindOfCmd(convCmd')
            /\ KindOfCmd(convCmd') =
                  (IF lastOp' = "readRawPressure" THEN DIGITAL_PRESSURE_VALUE
                   ELSE IF lastOp' = "readRawTemperature" THEN DIGITAL_TEMPERATURE_VALUE
                   ELSE IF myRunCnt' % 2 = 0 THEN DIGITAL_TEMPERATURE_VALUE
                   ELSE DIGITAL_PRESSURE_VALUE)]_vars

\* a ready step of run() that followed a blocking read started a conversion of
\* the kind it had just read
C21_Witness ==
    /\ lastOp = "run"
    /\ pc = "idle"
    /\ runStreak = 1
    /\ myRunCnt >= 2
    /\ adcRead # <<>>
    /\ KindOfCmd(adcRead[1]) = KindOfCmd(convCmd)

\* C22: a ready step that returns writes one conversion-start opcode, 0x40 or
\* 0x50 plus the oversampling code stored then, and sets the deadline to
\* millis() plus the wait constant stored then; setOversampling() changes
\* neither the pending command nor the deadline
C22_CommandAndDeadline ==
    /\ [][(lastOp' \in StepOps /\ Ready /\ ~WillHang)
            => /\ Cardinality({i \in DOMAIN busLog' :
                                  busLog'[i] # MS5611_CMD_ADC_READ}) = 1
               /\ busLog'[Len(busLog')] = convCmd'
               /\ convCmd' \in {MS5611_CMD_CONV_D1 + myuosr, MS5611_CMD_CONV_D2 + myuosr}
               /\ nextRead' = UAdd(now, myct)]_vars
    /\ [][lastOp' = "setOversampling"
            => /\ busLog' = <<>>
               /\ UNCHANGED <<convCmd, myPendingValueType, nextRead>>]_vars

\* setOversampling() changed the level and the wait constant while a conversion
\* started by a ready step after begin() was pending
C22_Witness ==
    /\ lastOp = "setOversampling"
    /\ myRunCnt >= 1
    /\ convCmd % 16 # myuosr
    /\ nextRead # UAdd(convAt, myct)

\* the operations that call triggerReadValues() in the step they make
BlockingPcs == {"idle", "readRawPressure", "readRawTemperature", "readPressure.D1",
                "readPressure.D2", "readTemperature.D2"}

\* C23: nothing is pending only while no conversion command has been sent since
\* the reset in begin(); every ready step leaves a pressure or a temperature
\* conversion pending, and a blocking raw read returns with a conversion of its
\* kind started in its last step
C23_PendingNeverNoneAgain ==
    /\ [](myPendingValueType = NONE => (convCmd = 0 /\ lastOp \in {"readPROM", "tick"}))
    /\ [][(Ready /\ ~WillHang /\ pc \in BlockingPcs /\ lastOp' # "tick")
            => myPendingValueType' \in {DIGITAL_PRESSURE_VALUE, DIGITAL_TEMPERATURE_VALUE}]_vars
    /\ [][(lastOp' = "readRawPressure" /\ pc' = "idle")
            => /\ myPendingValueType' = DIGITAL_PRESSURE_VALUE
               /\ convCmd' = MS5611_CMD_CONV_D1 + myuosr
               /\ convAt' = now]_vars
    /\ [][(lastOp' = "readRawTemperature" /\ pc' = "idle")
            => /\ myPendingValueType' = DIGITAL_TEMPERATURE_VALUE
               /\ convCmd' = MS5611_CMD_CONV_D2 + myuosr
               /\ convAt' = now]_vars

\* the first blocking raw read after the reset has returned: its first ready
\* step found nothing pending and its second one read the value
C23_Witness ==
    /\ lastOp = "readRawTemperature"
    /\ pc = "idle"
    /\ callReady = 2
    /\ myRunCnt \in {2, WARMUP_RUNS}
    /\ myPendingValueType = DIGITAL_TEMPERATURE_VALUE

\* int getVerticalSpeed()
getVerticalSpeed == myVerticalSpeed

\* C24: while the warm-up flag is set the vertical speed is 0, and a
\* pressure-ready step that leaves the flag set takes the altitude of its
\* smoothed pressure as the previous altitude, so its estimate is 0
C24_NoSpeedInWarmUp ==
    /\ [](myWarmUpPhase => getVerticalSpeed = 0)
    /\ [][(lastOp' \in StepOps /\ Ready /\ ~WillHang /\ myWarmUpPhase'
             /\ myPendingValueType = DIGITAL_PRESSURE_VALUE)
            => /\ lastAltitude' = calcAltitude(mySmoothedPressureVal', PRESSURE_SEALEVEL)
               /\ getVerticalSpeed' = 0]_vars

\* C25: also when the millisecond counter wraps, a step reads the pending
\* result exactly when it is called more than the wait time of the conversion
\* after the conversion was requested: never sooner, and always then
C25_ReadinessAcrossWrap ==
    [][(lastOp' \in StepOps /\ myPendingValueType # NONE)
         => ((adcRead' # <<>>) <=> (USub(now, convAt) > ConversionWaitMs(convCmd)))]_vars

====
